---- MODULE Spec2Model ----
(***************************************************************************)
(* lib.reviews: the FormHandler dispatcher (routes/handlers/form-handler.js)*)
(* and the form submission parser (routes/helpers/forms.js).               *)
(*                                                                         *)
(* Spec       one FormHandler instance: constructor, addPreFlightCheck,    *)
(*            execute() and the two promise callbacks of its data load.    *)
(* SpecParse  forms.parseSubmission applied to bounded request bodies and  *)
(*            form definitions.                                            *)
(***************************************************************************)
EXTENDS Integers, Sequences, FiniteSets, TLC

VARIABLES
    handlers,   \* FormHandler instances: instance id -> the instance's fields
    arrays,     \* the heap of preFlightChecks arrays: array reference -> contents
    parse       \* one parseSubmission call: its inputs, and its outcome once run

vars == <<handlers, arrays, parse>>

\* ------------------------------------------------------------------ bounds

\* Longest preFlightChecks array addPreFlightCheck is allowed to build.
MaxChecks == 3

\* ------------------------------------------------------- FormHandler: data

\* Object.keys(this.actions), in insertion order.
ActionKeys == <<"create", "edit", "delete">>

ActionNames == {ActionKeys[i] : i \in 1..Len(ActionKeys)}

\* Values of options.action a route may pass; "review" is not an action.
RequestedActions == ActionNames \cup {"review"}

\* Values of options.method; only GET and POST ever have a handler slot.
Methods == {"GET", "POST", "PUT"}

\* options.id ("undefined" is the constructor's default).
Ids == {"undefined", "r1"}

\* req.user: absent, signed in, signed in and trusted.
Users == {"anonymous", "user", "trusted"}

\* Pre-flight checks the class provides.
CheckNames == {"userIsSignedIn", "userIsTrusted"}

\* Error values: what a promise can be rejected with or a function can throw.
\* kind "nullish" is a rejection with undefined/null (no properties to read).
Err(kind, name, message) == [kind |-> kind, name |-> name, message |-> message]

NotFoundError == Err("error", "DocumentNotFoundError", "no document")
DeletedError  == Err("error", "Error", "deleted")
OtherError    == Err("error", "Error", "connection lost")
TypeErrorOf(what) == Err("error", "TypeError", what)
NullishError  == Err("nullish", "", "")
NoError       == Err("none", "", "")

\* What loadData()'s promise can be rejected with.
LoadErrors == {NotFoundError, DeletedError, OtherError, NullishError}

\* What a verb handler can throw.
HandlerErrors == {NotFoundError, DeletedError, OtherError}

\* A loaded resource.  userCanEdit/userCanDelete are the flags the resource has
\* after populateUserInfo(req.user).  kind "nullish": the load resolved to
\* undefined/null.
Resource(kind, del, e, d) ==
    [kind |-> kind, _revDeleted |-> del, userCanEdit |-> e, userCanDelete |-> d]

Resources == {Resource("object", del, e, d) : del \in BOOLEAN, e \in BOOLEAN, d \in BOOLEAN}

NullishResource == Resource("nullish", FALSE, FALSE, FALSE)

LoadResults == Resources \cup {NullishResource}

\* One observable call made on behalf of a request.
Ev(op, name, info, args) == [op |-> op, name |-> name, info |-> info, args |-> args]

\* The subclasses the model constructs: which verb handlers the subclass
\* defines, whether it defines loadData, whether it sets titleKeys, and
\* whether it keeps the resourcePermissionCheck of edit and delete.
HandlerSets == {
    {"create_GET", "create_POST", "edit_GET", "edit_POST", "delete_GET", "delete_POST"},
    {"create_GET", "edit_GET", "delete_GET"},
    {"create_GET", "create_POST"} }

Subclasses ==
    {[methods |-> m, loadData |-> l, titles |-> t, permissionChecks |-> p] :
        m \in HandlerSets, l \in BOOLEAN, t \in BOOLEAN, p \in BOOLEAN}

HandlerName(action, method) == action \o "_" \o method

TitleOf(sub, action) == IF sub.titles THEN action \o " title" ELSE "undefined"

\* --------------------------------------------------- FormHandler: operations

\* A table whose preFlightChecks arrays are made once and shared by every
\* instance of the class.
ArrayRefShared(h, i) == i

\* The preFlightChecks array literal of action number i of instance h: every
\* construction evaluates three array literals, so three fresh arrays.
ArrayRef(h, i) == 3 * (h - 1) + i

ActionIndex(action) == CHOOSE i \in 1..Len(ActionKeys) : ActionKeys[i] = action

\* new FormHandler(req, res, next, options), as extended by subclass sub.
\* create has neither loadData nor resourcePermissionCheck; edit and delete
\* take this.loadData, which is a function only if the subclass defines it.
Constructor(h, sub, user, action, method, id) ==
    [ actions |->
        [a \in ActionNames |->
            [ GET  |-> HandlerName(a, "GET") \in sub.methods,
              POST |-> HandlerName(a, "POST") \in sub.methods,
              preFlightChecks |-> ArrayRef(h, ActionIndex(a)),
              loadData |-> (a # "create" /\ sub.loadData),
              resourcePermissionCheck |->
                  IF a = "edit" /\ sub.permissionChecks THEN "userCanEdit"
                  ELSE IF a = "delete" /\ sub.permissionChecks THEN "userCanDelete"
                  ELSE "undefined",
              titleKey |-> TitleOf(sub, a) ]],
      user   |-> user,
      documentNotFoundTemplate |-> "404",
      documentNotFoundTitleKey |-> "page not found title",
      action |-> action,
      method |-> method,
      id     |-> id,
      pc      |-> "constructed",
      log     |-> << >>,
      thrown  |-> NoError,
      pending |-> NoError,
      loaded  |-> [state |-> "none", value |-> NullishResource] ]

\* The arrays a construction of instance h allocates.
NewArrays(h) == [r \in {ArrayRef(h, i) : i \in 1..Len(ActionKeys)} |-> <<"userIsSignedIn">>]

\* A dispatcher that only asks whether the method is one it knows.
IsFunctionAnyKnownMethod(spec, method) == method \in {"GET", "POST"}

\* typeof this.actions[action][method] == 'function'
IsFunction(spec, method) == method \in {"GET", "POST"} /\ spec[method]

\* userIsSignedIn()
UserIsSignedIn(self) ==
    IF self.user = "anonymous"
    THEN [ result |-> FALSE,
           log |-> << Ev("render.signinRequired", "", <<self.actions[self.action].titleKey>>, << >>) >> ]
    ELSE [ result |-> TRUE, log |-> << >> ]

\* userIsTrusted()
UserIsTrusted(self) ==
    IF self.user # "trusted"
    THEN [ result |-> FALSE,
           log |-> << Ev("render.permissionError", "",
                         <<self.actions[self.action].titleKey, "must be trusted">>, << >>) >> ]
    ELSE [ result |-> TRUE, log |-> << >> ]

\* check.call(this) for one entry of a preFlightChecks array.
CallCheck(self, check) ==
    LET r == IF check = "userIsSignedIn" THEN UserIsSignedIn(self) ELSE UserIsTrusted(self)
    IN  [ result |-> r.result,
          log |-> << Ev("preFlightCheck", check, << >>, << >>) >> \o r.log ]

\* A loop over preFlightChecks that stops at the first failed check.
RECURSIVE PreFlightShortCircuit(_, _, _, _)
PreFlightShortCircuit(self, checks, mayProceed, log) ==
    IF checks = << >> \/ ~mayProceed
    THEN [ mayProceed |-> mayProceed, log |-> log ]
    ELSE LET r == IF Head(checks) = "userIsSignedIn"
                  THEN UserIsSignedIn(self) ELSE UserIsTrusted(self)
         IN  PreFlightShortCircuit(self, Tail(checks), mayProceed /\ r.result,
                 (log \o << Ev("preFlightCheck", Head(checks), << >>, << >>) >>) \o r.log)

\* The loop over preFlightChecks: every check is called, mayProceed is the
\* conjunction of the results.
RECURSIVE PreFlight(_, _, _, _)
PreFlight(self, checks, mayProceed, log) ==
    IF checks = << >>
    THEN [ mayProceed |-> mayProceed, log |-> log ]
    ELSE LET r == CallCheck(self, Head(checks))
         IN  PreFlight(self, Tail(checks), mayProceed /\ r.result, log \o r.log)

\* A userCan that accepts either flag of the resource for either action.
UserCanEitherFlag(self, action, data) ==
    LET populate == Ev("populateUserInfo", "", <<self.user>>, <<data>>)
    IN  IF data.userCanEdit \/ data.userCanDelete
        THEN [ result |-> TRUE, log |-> <<populate>> ]
        ELSE [ result |-> FALSE,
               log |-> << populate,
                          Ev("render.permissionError", "",
                             <<self.actions[self.action].titleKey>>, << >>) >> ]

\* userCan(action, data)
UserCan(self, action, data) ==
    LET populate == Ev("populateUserInfo", "", <<self.user>>, <<data>>)
    IN  IF action = "edit" /\ data.userCanEdit
        THEN [ result |-> TRUE, log |-> <<populate>> ]
        ELSE IF action = "delete" /\ data.userCanDelete
        THEN [ result |-> TRUE, log |-> <<populate>> ]
        ELSE [ result |-> FALSE,
               log |-> << populate,
                          Ev("render.permissionError", "",
                             <<self.actions[self.action].titleKey>>, << >>) >> ]

\* resourcePermissionCheck.call(this, data): userCanEdit or userCanDelete.
CallPermissionCheck(self, check, data) ==
    LET r == IF check = "userCanEdit" THEN UserCan(self, "edit", data)
             ELSE UserCan(self, "delete", data)
    IN  [ result |-> r.result,
          log |-> << Ev("resourcePermissionCheck", check, << >>, <<data>>) >> \o r.log ]

\* this.actions[action][method].call(this, ...args)
CallHandler(self, args) == Ev("handler", HandlerName(self.action, self.method), << >>, args)

\* A dispatch that starts the data load whether or not the action has one.
DispatchAlwaysLoads(self, log, outcome) ==
    [self EXCEPT !.pc = "loading",
                 !.log = Append(log, Ev("loadData", "", << >>, << >>))]

\* execute() once the pre-flight checks have passed (log: their calls): call
\* the verb handler at once when the action has no loadData, else start the
\* load.  outcome is what the verb handler does if it is called: NoError
\* (it returns) or the error it throws.
Dispatch(self, log, outcome) ==
    IF ~self.actions[self.action].loadData
    THEN [self EXCEPT !.pc = IF outcome = NoError THEN "returned" ELSE "threw",
                      !.thrown = outcome,
                      !.log = Append(log, CallHandler(self, << >>))]
    ELSE [self EXCEPT !.pc = "loading",
                      !.log = Append(log, Ev("loadData", "", << >>, << >>))]

\* The synchronous part of execute(): the two configuration checks, the
\* pre-flight checks, the dispatch.
ExecuteSync(self, heap, outcome) ==
    IF self.action \notin ActionNames
    THEN [self EXCEPT !.pc = "threw",
                      !.thrown = Err("error", "Error", "Did not recognize form action: undefined")]
    ELSE LET spec == self.actions[self.action] IN
    IF ~IsFunction(spec, self.method)
    THEN [self EXCEPT !.pc = "threw",
                      !.thrown = Err("error", "Error", "No defined handler for this method.")]
    ELSE LET pf == PreFlight(self, heap[spec.preFlightChecks], TRUE, << >>) IN
    IF ~pf.mayProceed
    THEN [self EXCEPT !.pc = "returned", !.log = pf.log]
    ELSE Dispatch(self, pf.log, outcome)

\* The .then callback, run when the load's promise is fulfilled with data.
ThenCallback(self, data, outcome) ==
    LET spec == self.actions[self.action]
        got  == [self EXCEPT !.loaded = [state |-> "fulfilled", value |-> data]]
    IN
    IF data.kind = "nullish"
    THEN [got EXCEPT !.pc = "rejected",
                     !.pending = TypeErrorOf("Cannot read property '_revDeleted' of undefined")]
    ELSE IF data._revDeleted
    THEN [got EXCEPT !.pc = "rejected", !.pending = DeletedError]
    ELSE LET pass == IF spec.resourcePermissionCheck = "undefined"
                     THEN [result |-> TRUE, log |-> << >>]
                     ELSE CallPermissionCheck(self, spec.resourcePermissionCheck, data)
         IN
    IF pass.result
    THEN [got EXCEPT !.pc = IF outcome = NoError THEN "settled" ELSE "rejected",
                     !.pending = outcome,
                     !.log = Append(self.log \o pass.log, CallHandler(self, <<data>>))]
    ELSE [got EXCEPT !.pc = "settled", !.log = self.log \o pass.log]

\* A .catch callback that titles the 404 page with the action's titleKey.
CatchCallbackActionTitle(self) ==
    LET error == self.pending IN
    IF error.kind = "nullish"
    THEN [self EXCEPT !.pc = "unhandled",
                      !.thrown = TypeErrorOf("Cannot read property 'name' of undefined")]
    ELSE IF error.name = "DocumentNotFoundError" \/ error.message = "deleted"
    THEN [self EXCEPT !.pc = "settled",
                      !.log = self.log \o
                          << Ev("res.status", "404", << >>, << >>),
                             Ev("render.template", self.documentNotFoundTemplate,
                                <<self.actions[self.action].titleKey, self.id>>, << >>) >>]
    ELSE [self EXCEPT !.pc = "settled",
                      !.log = Append(self.log, Ev("next", "", <<error.name, error.message>>, << >>))]

\* A .catch callback that recognises a missing document by the error's name
\* alone.
CatchCallbackNameOnly(self) ==
    LET error == self.pending IN
    IF error.kind = "nullish"
    THEN [self EXCEPT !.pc = "unhandled",
                      !.thrown = TypeErrorOf("Cannot read property 'name' of undefined")]
    ELSE IF error.name = "DocumentNotFoundError"
    THEN [self EXCEPT !.pc = "settled",
                      !.log = self.log \o
                          << Ev("res.status", "404", << >>, << >>),
                             Ev("render.template", self.documentNotFoundTemplate,
                                <<self.documentNotFoundTitleKey, self.id>>, << >>) >>]
    ELSE [self EXCEPT !.pc = "settled",
                      !.log = Append(self.log, Ev("next", "", <<error.name, error.message>>, << >>))]

\* The .catch callback, run with the rejection of the load or of the .then
\* callback.  Reading error.name of undefined/null throws inside the callback.
CatchCallback(self) ==
    LET error == self.pending IN
    IF error.kind = "nullish"
    THEN [self EXCEPT !.pc = "unhandled",
                      !.thrown = TypeErrorOf("Cannot read property 'name' of undefined")]
    ELSE IF error.name = "DocumentNotFoundError" \/ error.message = "deleted"
    THEN [self EXCEPT !.pc = "settled",
                      !.log = self.log \o
                          << Ev("res.status", "404", << >>, << >>),
                             Ev("render.template", self.documentNotFoundTemplate,
                                <<self.documentNotFoundTitleKey, self.id>>, << >>) >>]
    ELSE [self EXCEPT !.pc = "settled",
                      !.log = Append(self.log, Ev("next", "", <<error.name, error.message>>, << >>))]

\* addPreFlightCheck(check): for each action of the table, from action number
\* i on, push check onto the array the action's preFlightChecks refers to.
RECURSIVE PushFrom(_, _, _, _)
PushFrom(self, heap, check, i) ==
    IF i > Len(ActionKeys)
    THEN heap
    ELSE LET r == self.actions[ActionKeys[i]].preFlightChecks
         IN  PushFrom(self, [heap EXCEPT ![r] = Append(@, check)], check, i + 1)

PushAll(self, heap, check) == PushFrom(self, heap, check, 1)

\* ------------------------------------------------------ FormHandler: actions

Instances == DOMAIN handlers

\* Nothing has asked for a parse: the value of parse under Spec.
ParseIdle == [stage |-> "idle"]

Init ==
    /\ \E sub \in Subclasses, user \in Users, action \in RequestedActions,
          method \in Methods, id \in Ids :
            handlers = [h \in {1} |-> Constructor(h, sub, user, action, method, id)]
    /\ arrays = NewArrays(1)
    /\ parse = ParseIdle

AddPreFlightCheck(h) ==
    /\ \A a \in ActionNames : Len(arrays[handlers[h].actions[a].preFlightChecks]) < MaxChecks
    /\ \E check \in CheckNames : arrays' = PushAll(handlers[h], arrays, check)
    /\ UNCHANGED <<handlers, parse>>

Execute(h) ==
    /\ handlers[h].pc = "constructed"
    /\ \E outcome \in {NoError} \cup HandlerErrors :
          handlers' = [handlers EXCEPT ![h] = ExecuteSync(handlers[h], arrays, outcome)]
    /\ UNCHANGED <<arrays, parse>>

LoadFulfilled(h) ==
    /\ handlers[h].pc = "loading"
    /\ \E data \in LoadResults, outcome \in {NoError} \cup HandlerErrors :
          handlers' = [handlers EXCEPT ![h] = ThenCallback(handlers[h], data, outcome)]
    /\ UNCHANGED <<arrays, parse>>

LoadRejected(h) ==
    /\ handlers[h].pc = "loading"
    /\ \E error \in LoadErrors :
          handlers' = [handlers EXCEPT ![h] =
              [@ EXCEPT !.pc = "rejected", !.pending = error,
                        !.loaded = [state |-> "rejected", value |-> NullishResource]]]
    /\ UNCHANGED <<arrays, parse>>

Catch(h) ==
    /\ handlers[h].pc = "rejected"
    /\ handlers' = [handlers EXCEPT ![h] = CatchCallback(handlers[h])]
    /\ UNCHANGED <<arrays, parse>>

Next ==
    \/ \E h \in Instances : AddPreFlightCheck(h)
    \/ \E h \in Instances : Execute(h)
    \/ \E h \in Instances : LoadFulfilled(h)
    \/ \E h \in Instances : LoadRejected(h)
    \/ \E h \in Instances : Catch(h)

Spec == Init /\ [][Next]_vars

\* Two requests in flight, each with its own FormHandler: the constructor has
\* run twice, for subclasses that define every verb handler (an edit by a
\* trusted user, a create by another user of a subclass without loadData),
\* and the operations on the two
\* instances interleave.
TwoSubclasses ==
    {sub \in Subclasses :
        /\ \A a \in ActionNames : \A m \in {"GET", "POST"} : HandlerName(a, m) \in sub.methods
        /\ sub.titles
        /\ sub.permissionChecks}

InitTwo ==
    /\ \E sub1 \in TwoSubclasses, sub2 \in {sub \in TwoSubclasses : ~sub.loadData},
          user2 \in {"anonymous", "user"} :
            handlers = [h \in {1, 2} |->
                IF h = 1 THEN Constructor(1, sub1, "trusted", "edit", "GET", "r1")
                ELSE Constructor(2, sub2, user2, "create", "POST", "undefined")]
    /\ arrays = [r \in DOMAIN NewArrays(1) \cup DOMAIN NewArrays(2) |->
                    IF r \in DOMAIN NewArrays(1) THEN NewArrays(1)[r] ELSE NewArrays(2)[r]]
    /\ parse = ParseIdle

SpecTwo == InitTwo /\ [][Next]_vars

\* ------------------------------------------------- FormHandler: properties

\* How many calls of kind op the log records.
Count(log, op) == Cardinality({i \in DOMAIN log : log[i].op = op})

\* The names of the calls of kind op, in the order they were made.
RECURSIVE NamesOf(_, _)
NamesOf(log, op) ==
    IF log = << >> THEN << >>
    ELSE IF Head(log).op = op THEN <<Head(log).name>> \o NamesOf(Tail(log), op)
    ELSE NamesOf(Tail(log), op)

\* The requested action is in the table and the table holds a function for
\* the requested method.
Configured(self) ==
    /\ self.action \in {"create", "edit", "delete"}
    /\ self.method \in {"GET", "POST"}
    /\ self.actions[self.action][self.method]

\* What a pre-flight check answers for a user.
Passes(user, check) ==
    IF check = "userIsSignedIn" THEN user # "anonymous" ELSE user = "trusted"

\* What the action's resource-permission check answers for a resource.
Grants(self, data) ==
    \/ self.actions[self.action].resourcePermissionCheck = "userCanEdit" /\ data.userCanEdit
    \/ self.actions[self.action].resourcePermissionCheck = "userCanDelete" /\ data.userCanDelete

\* execute() has been called on the instance.
Executed(self) == self.pc # "constructed"

\* The step is the call of execute() on instance h.
ExecuteStep(h) == handlers[h].pc = "constructed" /\ handlers'[h].pc # "constructed"

\* The checks of the requested action when execute() is called.
ChecksOf(self, heap) == heap[self.actions[self.action].preFlightChecks]

\* C1: execute() on an unknown action, or on an (action, method) pair with no
\* function registered, throws a configuration error, and no pre-flight check,
\* data load, permission check, render or verb handler has run.
C1_ConfigurationError ==
    \A h \in Instances :
        LET self == handlers[h] IN
        (Executed(self) /\ ~Configured(self)) =>
            /\ self.pc = "threw"
            /\ self.thrown.kind = "error"
            /\ self.thrown.message =
                  IF self.action \notin {"create", "edit", "delete"}
                  THEN "Did not recognize form action: undefined"
                  ELSE "No defined handler for this method."
            /\ self.log = << >>

C1_Witness ==
    \E h \in Instances :
        /\ handlers[h].pc = "threw"
        /\ handlers[h].action = "edit"
        /\ handlers[h].method = "POST"
        /\ ~Configured(handlers[h])

\* C2: when some pre-flight check of the requested action returns false,
\* execute() still calls every check of the list, in list order and once each,
\* and it returns without a data load, a resource-permission check or a verb
\* handler; none of them runs later either.
C2_FailedPreFlightRunsAllChecks ==
    [][\A h \in Instances :
          LET self == handlers[h]
              checks == ChecksOf(self, arrays)
          IN
          /\ (/\ ExecuteStep(h)
              /\ Configured(self)
              /\ \E i \in DOMAIN checks : ~Passes(self.user, checks[i]))
             => /\ NamesOf(handlers'[h].log, "preFlightCheck") = checks
                /\ Count(handlers'[h].log, "loadData") = 0
                /\ Count(handlers'[h].log, "resourcePermissionCheck") = 0
                /\ Count(handlers'[h].log, "handler") = 0
                /\ handlers'[h].pc = "returned"
          /\ self.pc = "returned" => handlers'[h] = self
      ]_vars

C2_Witness ==
    \E h \in Instances :
        LET self == handlers[h] IN
        /\ self.pc = "returned"
        /\ self.user = "user"
        /\ NamesOf(self.log, "preFlightCheck") = <<"userIsSignedIn", "userIsTrusted", "userIsSignedIn">>
        /\ Count(self.log, "handler") = 0

\* The calls of kind op, in the order they were made.
CallsOf(log, op) == SelectSeq(log, LAMBDA e : e.op = op)

\* The load of the instance resolved to a soft-deleted resource.
LoadedDeleted(self) ==
    /\ self.loaded.state = "fulfilled"
    /\ self.loaded.value.kind = "object"
    /\ self.loaded.value._revDeleted

\* The log ends with status 404 and the 404 template rendered with titleKey
\* and the resource id, and holds no other 404 render and no forwarded error.
Rendered404(self, titleKey) ==
    /\ Len(self.log) >= 2
    /\ self.log[Len(self.log) - 1] = Ev("res.status", "404", << >>, << >>)
    /\ self.log[Len(self.log)] = Ev("render.template", "404", <<titleKey, self.id>>, << >>)
    /\ Count(self.log, "res.status") = 1
    /\ Count(self.log, "render.template") = 1
    /\ Count(self.log, "next") = 0

\* C3 as stated: a load resolving to a resource with _revDeleted = true ends
\* in status 404 and the 404 template rendered with the requested action's
\* titleKey and the resource id, and neither the resource-permission check
\* nor the verb handler is called.
C3_DeletedRendersActionTitle ==
    \A h \in Instances :
        LET self == handlers[h] IN
        LoadedDeleted(self) =>
            /\ Count(self.log, "resourcePermissionCheck") = 0
            /\ Count(self.log, "handler") = 0
            /\ self.pc = "settled" => Rendered404(self, self.actions[self.action].titleKey)

\* C3 (amended): a load resolving to a resource with _revDeleted = true ends
\* in status 404 and the 404 template rendered with the title key
\* 'page not found title' (the instance's documentNotFoundTitleKey) and the
\* resource id, and neither the resource-permission check nor the verb handler
\* is called.
C3_DeletedRendersNotFoundTitle ==
    \A h \in Instances :
        LET self == handlers[h] IN
        LoadedDeleted(self) =>
            /\ Count(self.log, "resourcePermissionCheck") = 0
            /\ Count(self.log, "handler") = 0
            /\ self.pc \in {"rejected", "settled"}
            /\ self.pc = "settled" => Rendered404(self, "page not found title")

C3_Witness ==
    \E h \in Instances :
        /\ LoadedDeleted(handlers[h])
        /\ handlers[h].pc = "settled"
        /\ handlers[h].id = "r1"
        /\ handlers[h].actions[handlers[h].action].titleKey = "edit title"

\* The pre-flight checks execute() called all passed.
PreFlightPassed(self) ==
    LET called == NamesOf(self.log, "preFlightCheck")
    IN  \A i \in DOMAIN called : Passes(self.user, called[i])

\* The load resolved to a resource that is not soft-deleted.
LoadedLive(self) ==
    /\ self.loaded.state = "fulfilled"
    /\ self.loaded.value.kind = "object"
    /\ ~self.loaded.value._revDeleted

\* Every call of kind op comes after the load has resolved: the instance is
\* past "loading" and the call follows the loadData call in the log.
AfterLoad(self, op) ==
    \A i \in DOMAIN self.log :
        self.log[i].op = op =>
            /\ self.pc # "loading"
            /\ self.loaded.state = "fulfilled"
            /\ \E j \in 1..(i - 1) : self.log[j].op = "loadData"

\* C4: for an action with a data loader whose pre-flight checks all pass, the
\* load is started, the permission check and the verb handler are called only
\* after it has resolved, and the verb handler is called (once, with the
\* loaded resource) exactly when the load resolved to a resource that is not
\* soft-deleted and the permission check is absent or granted; a denied
\* permission check ends the request with no handler call, no 404 and no
\* forwarded error.
C4_HandlerIffLoadedAndPermitted ==
    \A h \in Instances :
        LET self == handlers[h]
            spec == self.actions[self.action]
            check == spec.resourcePermissionCheck
            data == self.loaded.value
            permitted == LoadedLive(self) /\ (check = "undefined" \/ Grants(self, data))
        IN
        (Executed(self) /\ Configured(self) /\ spec.loadData /\ PreFlightPassed(self)) =>
            /\ Count(self.log, "loadData") = 1
            /\ AfterLoad(self, "resourcePermissionCheck")
            /\ AfterLoad(self, "handler")
            /\ self.pc # "loading" =>
                /\ CallsOf(self.log, "handler") =
                      IF permitted
                      THEN << Ev("handler", HandlerName(self.action, self.method), << >>, <<data>>) >>
                      ELSE << >>
                /\ CallsOf(self.log, "resourcePermissionCheck") =
                      IF LoadedLive(self) /\ check # "undefined"
                      THEN << Ev("resourcePermissionCheck", check, << >>, <<data>>) >>
                      ELSE << >>
                /\ (LoadedLive(self) /\ ~permitted) =>
                      /\ self.pc = "settled"
                      /\ Count(self.log, "res.status") = 0
                      /\ Count(self.log, "render.template") = 0
                      /\ Count(self.log, "next") = 0

C4_Witness ==
    \E h \in Instances :
        LET self == handlers[h] IN
        /\ self.pc = "settled"
        /\ self.action = "delete"
        /\ self.actions[self.action].resourcePermissionCheck = "userCanDelete"
        /\ LoadedLive(self)
        /\ self.loaded.value.userCanDelete
        /\ ~self.loaded.value.userCanEdit
        /\ Count(self.log, "handler") = 1

\* The load of the instance failed: its promise was rejected.
LoadFailed(self) == self.loaded.state = "rejected"

\* The dispatcher made no render of its own.
NothingRendered(self) ==
    /\ Count(self.log, "res.status") = 0
    /\ Count(self.log, "render.template") = 0

\* C5 as stated: a failed load ends in the 404 render, the error not
\* forwarded, when the error is named DocumentNotFoundError; any other
\* failure is forwarded once with next(error) and nothing is rendered; the
\* verb handler is never called.
C5_OnlyNotFoundRenders404 ==
    \A h \in Instances :
        LET self == handlers[h]
            error == self.pending
        IN
        LoadFailed(self) =>
            /\ Count(self.log, "handler") = 0
            /\ self.pc # "rejected" =>
                  IF error.name = "DocumentNotFoundError"
                  THEN Rendered404(self, "page not found title")
                  ELSE /\ CallsOf(self.log, "next") =
                             << Ev("next", "", <<error.name, error.message>>, << >>) >>
                       /\ NothingRendered(self)

\* C5 (amended): a load that fails with an error value ends in the 404
\* render, the error not forwarded, when the error is named
\* DocumentNotFoundError or its message is 'deleted'; any other error value
\* is forwarded once with next(error) and nothing is rendered; a rejection
\* with undefined or null makes the .catch callback throw, with nothing
\* rendered and nothing forwarded; the verb handler is never called.
C5_LoadFailure ==
    \A h \in Instances :
        LET self == handlers[h]
            error == self.pending
        IN
        LoadFailed(self) =>
            /\ Count(self.log, "handler") = 0
            /\ Count(self.log, "resourcePermissionCheck") = 0
            /\ self.pc \in {"rejected", "settled", "unhandled"}
            /\ self.pc # "rejected" =>
                  IF error.kind = "nullish"
                  THEN /\ self.pc = "unhandled"
                       /\ NothingRendered(self)
                       /\ Count(self.log, "next") = 0
                  ELSE IF error.name = "DocumentNotFoundError" \/ error.message = "deleted"
                  THEN self.pc = "settled" /\ Rendered404(self, "page not found title")
                  ELSE /\ self.pc = "settled"
                       /\ CallsOf(self.log, "next") =
                             << Ev("next", "", <<error.name, error.message>>, << >>) >>
                       /\ NothingRendered(self)

C5_Witness ==
    \E h \in Instances :
        /\ LoadFailed(handlers[h])
        /\ handlers[h].pc = "settled"
        /\ handlers[h].pending.name = "Error"
        /\ handlers[h].pending.message = "deleted"
        /\ Count(handlers[h].log, "render.template") = 1

\* C6: when the requested action has no data loader and all its pre-flight
\* checks pass, execute() calls the verb handler once, with no arguments,
\* before it returns, and it runs no data load and no resource-permission
\* check, whether or not the action has one configured; nothing runs after
\* execute() has returned or thrown.
C6_NoLoaderCallsHandlerSynchronously ==
    [][\A h \in Instances :
          LET self == handlers[h]
              checks == ChecksOf(self, arrays)
              after == handlers'[h]
          IN
          /\ (/\ ExecuteStep(h)
              /\ Configured(self)
              /\ ~self.actions[self.action].loadData
              /\ \A i \in DOMAIN checks : Passes(self.user, checks[i]))
             => /\ after.pc \in {"returned", "threw"}
                /\ CallsOf(after.log, "handler") =
                      << Ev("handler", HandlerName(self.action, self.method), << >>, << >>) >>
                /\ after.log[Len(after.log)].op = "handler"
                /\ Count(after.log, "loadData") = 0
                /\ Count(after.log, "resourcePermissionCheck") = 0
          /\ self.pc \in {"returned", "threw"} => after = self
      ]_vars

C6_Witness ==
    \E h \in Instances :
        LET self == handlers[h] IN
        /\ self.pc = "returned"
        /\ self.action = "edit"
        /\ ~self.actions["edit"].loadData
        /\ self.actions["edit"].resourcePermissionCheck = "userCanEdit"
        /\ Len(arrays[self.actions["edit"].preFlightChecks]) = 2
        /\ Count(self.log, "handler") = 1
        /\ Count(self.log, "resourcePermissionCheck") = 0

\* The action table of instance h as a request sees it: every field of every
\* action, with the contents of its preFlightChecks array.
TableOf(hs, heap, h) ==
    [a \in {"create", "edit", "delete"} |->
        [hs[h].actions[a] EXCEPT !.preFlightChecks = heap[@]]]

\* A table with check added at the end of the list of every action.
WithCheck(table, check) ==
    [a \in DOMAIN table |-> [table[a] EXCEPT !.preFlightChecks = Append(@, check)]]

\* C11: addPreFlightCheck(check) on an instance appends check to the end of
\* the pre-flight list of each of its actions and changes nothing else of its
\* action table; no other operation changes an action table (execute() and
\* its callbacks leave every table as it is), and no operation on one instance
\* changes the table of the other, however the operations on two instances
\* interleave.
C11_OnlyAddPreFlightCheckChangesOwnTable ==
    [][/\ DOMAIN handlers' = DOMAIN handlers
       /\ \/ \A h \in Instances :
                TableOf(handlers', arrays', h) = TableOf(handlers, arrays, h)
          \/ \E h \in Instances, check \in {"userIsSignedIn", "userIsTrusted"} :
                /\ handlers' = handlers
                /\ TableOf(handlers', arrays', h) = WithCheck(TableOf(handlers, arrays, h), check)
                /\ \A g \in Instances \ {h} :
                      TableOf(handlers', arrays', g) = TableOf(handlers, arrays, g)
       /\ handlers' # handlers =>
             \A h \in Instances :
                TableOf(handlers', arrays', h) = TableOf(handlers, arrays, h)
      ]_vars

C11_Witness ==
    /\ Instances = {1, 2}
    /\ \A a \in {"create", "edit", "delete"} :
          /\ TableOf(handlers, arrays, 1)[a].preFlightChecks =
                <<"userIsSignedIn", "userIsTrusted", "userIsSignedIn">>
          /\ TableOf(handlers, arrays, 2)[a].preFlightChecks =
                <<"userIsSignedIn", "userIsSignedIn">>
    /\ handlers[1].pc = "settled"
    /\ handlers[2].pc = "returned"

\* execute() has run to its end: it returned or threw, and any load it
\* started has settled and its callbacks have run.
Ended(self) == self.pc \in {"returned", "threw", "settled", "unhandled"}

\* The failure responses the checks rendered (sign-in required, permission
\* error), from pre-flight checks and the resource-permission check alike.
CheckRenders(self) ==
    Count(self.log, "render.signinRequired") + Count(self.log, "render.permissionError")

\* The outcomes of a request that occurred, among: a failure response
\* rendered by a check, the 404 render, the error forwarded, the verb handler
\* invoked.
Outcomes(self) ==
    {o \in {"check failure", "404", "forwarded", "handler"} :
        \/ o = "check failure" /\ CheckRenders(self) > 0
        \/ o = "404" /\ Count(self.log, "render.template") > 0
        \/ o = "forwarded" /\ Count(self.log, "next") > 0
        \/ o = "handler" /\ Count(self.log, "handler") > 0}

\* C12: every execute() that passes the configuration checks ends in exactly
\* one outcome (a failure response rendered by a check, the 404 render, the
\* error forwarded with next(error), or the verb handler invoked), and no
\* response is rendered more than once.
C12_ExactlyOneOutcome ==
    \A h \in Instances :
        LET self == handlers[h] IN
        (Configured(self) /\ Ended(self)) =>
            /\ Cardinality(Outcomes(self)) = 1
            /\ CheckRenders(self) + Count(self.log, "render.template") <= 1

\* ------------------------------------------------------------ forms: data

\* Longest form definition (options.formDef) a caller passes.
MaxFields == 2

\* Strings of a request body are sequences of characters.  JavaScript's
\* undefined (a key the body does not have) is Undefined.
Undefined == [defined |-> FALSE, value |-> << >>]

Defined(str) == [defined |-> TRUE, value |-> str]

\* !x for a body value: undefined and the empty string are falsy.
Falsy(v) == ~v.defined \/ v.value = << >>

\* String.prototype.trim over the model's one whitespace character.
RECURSIVE TrimStart(_)
TrimStart(str) ==
    IF str # << >> /\ Head(str) = " " THEN TrimStart(Tail(str)) ELSE str

RECURSIVE TrimEnd(_)
TrimEnd(str) ==
    IF str # << >> /\ str[Len(str)] = " "
    THEN TrimEnd(SubSeq(str, 1, Len(str) - 1))
    ELSE str

Trim(str) == TrimEnd(TrimStart(str))

\* String.prototype.toUpperCase over the model's characters.
UpperChar(c) == IF c = "a" THEN "A" ELSE c

ToUpperCase(str) == [i \in DOMAIN str |-> UpperChar(str[i])]

\* escape-html over the model's characters: '<' becomes '&lt;'.
RECURSIVE EscapeHTML(_)
EscapeHTML(str) ==
    IF str = << >> THEN << >>
    ELSE IF Head(str) = "<" THEN <<"&", "l", "t", ";">> \o EscapeHTML(Tail(str))
    ELSE <<Head(str)>> \o EscapeHTML(Tail(str))

\* Results of library calls the parser only passes on, kept as terms.
NumberOf(str) == [Number |-> str]
NormalizedURL(str) == [encodeURI |-> [normalize |-> str]]
RenderedMarkdown(str, locale) == [render |-> str, language |-> locale]

\* { [language]: value }
Multilingual(language, value) == [l \in {language} |-> value]

\* One entry of a form definition.  key "" and htmlKey "" stand for an entry
\* without that option; type "undefined" for an entry without a type.
Field(name, key, type, required, skipValue, flat, htmlKey) ==
    [ name |-> name, key |-> key, type |-> type, required |-> required,
      skipValue |-> skipValue, flat |-> flat, htmlKey |-> htmlKey ]

\* The entries callers build form definitions from.
FieldPool == {
    Field("title", "", "text", TRUE, FALSE, FALSE, ""),
    Field("title", "label", "undefined", FALSE, FALSE, FALSE, ""),
    Field("title", "", "url", FALSE, FALSE, FALSE, ""),
    Field("title", "", "boolean", FALSE, FALSE, FALSE, ""),
    Field("text", "", "markdown", TRUE, FALSE, TRUE, "html"),
    Field("text", "", "text", FALSE, FALSE, FALSE, ""),
    Field("text", "", "number", TRUE, TRUE, FALSE, "") }

FormDefs == UNION {[1..n -> FieldPool] : n \in 0..MaxFields}

\* The implicit entries parseSubmission appends.
CsrfField == Field("_csrf", "", "undefined", TRUE, TRUE, FALSE, "")
CaptchaIdField == Field("captcha-id", "", "undefined", TRUE, FALSE, FALSE, "")
CaptchaAnswerField == Field("captcha-answer", "", "undefined", TRUE, FALSE, FALSE, "")

\* config.questionCaptcha: the forms with a CAPTCHA, and the challenges.
CaptchaForms == {"new-review"}

Captchas == << [questionKey |-> "captcha question 1", answerKey |-> "captcha answer 1"] >>

\* req.__(key): the localized message of a key; the answer of the one
\* challenge is 'a'.
Localized(key) == IF key = "captcha answer 1" THEN <<"a">> ELSE <<key>>

\* options.formKey: a form with a CAPTCHA and one without.
FormKeys == {"new-review", "register"}

\* options.skipRequiredCheck
SkipLists == { << >>, <<"title">> }

\* Request bodies: for each key, the key is absent or has one of the values.
BodyKeyOrder == <<"title", "text", "_csrf", "captcha-id", "captcha-answer", "extra">>

BodyValues(k) ==
    IF k = "title" THEN {Undefined, Defined(<< >>), Defined(<<" ", "<", "a">>)}
    ELSE IF k = "text" THEN {Undefined, Defined(<<"a">>)}
    ELSE IF k = "_csrf" THEN {Undefined, Defined(<<"a">>)}
    ELSE IF k = "captcha-id" THEN {Undefined, Defined(<<"0">>), Defined(<<"5">>)}
    ELSE IF k = "captcha-answer"
         THEN {Undefined, Defined(<< >>), Defined(<<" ", "A", " ">>), Defined(<<"a", "<">>)}
    ELSE {Undefined, Defined(<<"a">>)}

BodyKeys == {BodyKeyOrder[i] : i \in DOMAIN BodyKeyOrder}

\* One choice of value (or of absence) for every key.
BodyChoices ==
    {choice \in [BodyKeys -> UNION {BodyValues(k) : k \in BodyKeys}] :
        \A k \in BodyKeys : choice[k] \in BodyValues(k)}

\* The body object holding the defined choices.
BodyOf(choice) ==
    [k \in {x \in DOMAIN choice : choice[x].defined} |-> choice[k].value]

\* req.body[name]
Get(body, name) == IF name \in DOMAIN body THEN Defined(body[name]) ELSE Undefined

\* Object.keys(req.body)
Keys(body) == SelectSeq(BodyKeyOrder, LAMBDA k : k \in DOMAIN body)

\* array.indexOf(x) != -1
Includes(seq, x) == \E i \in DOMAIN seq : seq[i] = x

\* k = array.indexOf(x); if (k !== -1) array.splice(k, 1)
RemoveFirst(seq, x) ==
    IF ~Includes(seq, x) THEN seq
    ELSE LET k == CHOOSE i \in DOMAIN seq : seq[i] = x /\ \A j \in 1..(i - 1) : seq[j] # x
         IN  SubSeq(seq, 1, k - 1) \o SubSeq(seq, k + 1, Len(seq))

\* object[key] = value
Put(object, key, value) ==
    [k \in DOMAIN object \cup {key} |-> IF k = key THEN value ELSE object[k]]

\* config.questionCaptcha.captchas[id] for a body value id: the challenge at
\* that index, if id is the decimal numeral of an index of the list.
DigitValue(c) ==
    IF c = "0" THEN 0 ELSE IF c = "1" THEN 1 ELSE IF c = "2" THEN 2
    ELSE IF c = "3" THEN 3 ELSE IF c = "4" THEN 4 ELSE IF c = "5" THEN 5 ELSE -1

HasCaptcha(id) ==
    /\ id.defined
    /\ Len(id.value) = 1
    /\ DigitValue(id.value[1]) >= 0
    /\ DigitValue(id.value[1]) < Len(Captchas)

CaptchaAt(id) == Captchas[DigitValue(id.value[1]) + 1]

\* ------------------------------------------------------ forms: operations

\* A processCaptchaAnswer that compares the answer as typed, untrimmed.
ProcessCaptchaAnswerUntrimmed(body) ==
    LET id == Get(body, "captcha-id")
        answerText == Get(body, "captcha-answer")
    IN  IF Falsy(answerText)
        THEN [ result |-> "false", flash |-> << >> ]
        ELSE IF ~HasCaptcha(id)
        THEN [ result |-> "false", flash |-> <<"unknown captcha">> ]
        ELSE IF ToUpperCase(answerText.value) # ToUpperCase(Localized(CaptchaAt(id).answerKey))
        THEN [ result |-> "false", flash |-> <<"incorrect captcha answer">> ]
        ELSE [ result |-> "true", flash |-> << >> ]

\* processCaptchaAnswer(req): the answer, and the messages it flashes.
ProcessCaptchaAnswer(body) ==
    LET id == Get(body, "captcha-id")
        answerText == Get(body, "captcha-answer")
    IN  IF Falsy(answerText)
        THEN [ result |-> "false", flash |-> << >> ]
        ELSE IF ~HasCaptcha(id)
        THEN [ result |-> "false", flash |-> <<"unknown captcha">> ]
        ELSE IF ToUpperCase(Trim(answerText.value)) #
                    ToUpperCase(Localized(CaptchaAt(id).answerKey))
        THEN [ result |-> "false", flash |-> <<"incorrect captcha answer">> ]
        ELSE [ result |-> "true", flash |-> << >> ]

\* The switch on field.type, reached with the body's value for the field.
\* number, url, text and markdown call value.trim(), which throws a TypeError
\* when the body has no such key.
Convert(st, field, key, value, language, locale) ==
    IF field.type \in {"number", "url", "text", "markdown"} /\ ~value.defined
    THEN [st EXCEPT !.threw = TRUE]
    ELSE IF field.type = "number"
    THEN [st EXCEPT !.formValues = Put(@, key, NumberOf(Trim(value.value)))]
    ELSE IF field.type = "url"
    THEN [st EXCEPT !.formValues = Put(@, key, NormalizedURL(Trim(value.value)))]
    ELSE IF field.type = "text"
    THEN [st EXCEPT !.formValues =
             Put(@, key, Multilingual(language, EscapeHTML(Trim(value.value))))]
    ELSE IF field.type = "markdown"
    THEN IF ~field.flat
         THEN [st EXCEPT !.formValues = Put(@, key,
                  [ text |-> Multilingual(language, EscapeHTML(Trim(value.value))),
                    html |-> Multilingual(language, RenderedMarkdown(Trim(value.value), locale)) ])]
         ELSE [st EXCEPT !.formValues =
                  Put(Put(@, key, Multilingual(language, EscapeHTML(Trim(value.value)))),
                      field.htmlKey,
                      Multilingual(language, RenderedMarkdown(Trim(value.value), locale)))]
    ELSE IF field.type = "boolean"
    THEN [st EXCEPT !.formValues = Put(@, key, ~Falsy(value))]
    ELSE [st EXCEPT !.formValues = Put(@, key, value)]

\* One turn of the loop over the form definition.
ProcessField(st, field, body, skipRequiredCheck, language, locale) ==
    LET seen == [st EXCEPT !.processedKeys = RemoveFirst(@, field.name)]
        key == IF field.key # "" THEN field.key ELSE field.name
        value == Get(body, field.name)
    IN  IF ~Includes(skipRequiredCheck, field.name) /\ Falsy(value) /\ field.required
        THEN [seen EXCEPT !.flash = Append(@, "need " \o field.name),
                          !.hasRequiredFields = FALSE]
        ELSE IF field.skipValue \/ Includes(skipRequiredCheck, field.name)
        THEN seen
        ELSE Convert(seen, field, key, value, language, locale)

\* A loop over the form definition that stops at the first missing required
\* field.
RECURSIVE ProcessFieldsUntilMissing(_, _, _, _, _, _)
ProcessFieldsUntilMissing(st, fields, body, skipRequiredCheck, language, locale) ==
    IF fields = << >> \/ st.threw \/ ~st.hasRequiredFields
    THEN st
    ELSE ProcessFieldsUntilMissing(
             ProcessField(st, Head(fields), body, skipRequiredCheck, language, locale),
             Tail(fields), body, skipRequiredCheck, language, locale)

\* The loop over the form definition; a throw ends it.
RECURSIVE ProcessFields(_, _, _, _, _, _)
ProcessFields(st, fields, body, skipRequiredCheck, language, locale) ==
    IF fields = << >> \/ st.threw
    THEN st
    ELSE ProcessFields(
             ProcessField(st, Head(fields), body, skipRequiredCheck, language, locale),
             Tail(fields), body, skipRequiredCheck, language, locale)

\* The form definition the loop runs over: a copy of the caller's with the
\* _csrf entry, and the two captcha entries when the form has a CAPTCHA.
EffectiveFormDef(formDef, formKey) ==
    (formDef \o <<CsrfField>>) \o
        (IF formKey \in CaptchaForms THEN <<CaptchaIdField, CaptchaAnswerField>> ELSE << >>)

\* parseSubmission(req, options): the locals when it returns or throws, the
\* messages flashed, and whether it threw.
ParseSubmission(body, formDef, formKey, skipRequiredCheck, language, locale) ==
    LET captcha == IF formKey \in CaptchaForms
                   THEN ProcessCaptchaAnswer(body)
                   ELSE [ result |-> "null", flash |-> << >> ]
        start == [ hasRequiredFields |-> TRUE,
                   hasUnknownFields  |-> FALSE,
                   hasCorrectCaptcha |-> captcha.result,
                   formValues        |-> << >>,
                   processedKeys     |-> Keys(body),
                   flash             |-> captcha.flash,
                   threw             |-> FALSE ]
        done == ProcessFields(start, EffectiveFormDef(formDef, formKey), body,
                              skipRequiredCheck, language, locale)
    IN  IF done.threw
        THEN done
        ELSE IF done.processedKeys # << >>
        THEN [done EXCEPT !.hasUnknownFields = TRUE,
                          !.flash = Append(@, "unexpected form data")]
        ELSE done

\* --------------------------------------------------------- forms: actions

\* A request and the options of a parseSubmission call, before the call.
InitParse ==
    /\ handlers = << >>
    /\ arrays = << >>
    /\ \E choice \in BodyChoices :
       \E formDef \in FormDefs, formKey \in FormKeys, skip \in SkipLists :
            parse = [ stage |-> "called",
                      body |-> BodyOf(choice),
                      formDef |-> formDef,
                      formKey |-> formKey,
                      skipRequiredCheck |-> skip,
                      language |-> "en",
                      locale |-> "en",
                      out |-> [ hasRequiredFields |-> TRUE,
                                hasUnknownFields  |-> FALSE,
                                hasCorrectCaptcha |-> "null",
                                formValues        |-> << >>,
                                processedKeys     |-> << >>,
                                flash             |-> << >>,
                                threw             |-> FALSE ] ]

\* The call runs to its return or to its throw.
Parse ==
    /\ parse.stage = "called"
    /\ LET out == ParseSubmission(parse.body, parse.formDef, parse.formKey,
                                  parse.skipRequiredCheck, parse.language, parse.locale)
       IN  parse' = [parse EXCEPT !.stage = IF out.threw THEN "threw" ELSE "returned",
                                  !.out = out]
    /\ UNCHANGED <<handlers, arrays>>

NextParse == Parse

SpecParse == InitParse /\ [][NextParse]_vars

\* ------------------------------------------------------ forms: properties

\* parseSubmission has run, to its return or to its throw.
Parsed == parse.stage \in {"returned", "threw"}

\* parseSubmission has returned a result.
Returned == parse.stage = "returned"

\* The schema a call works on: the caller's entries, _csrf, and the captcha
\* entries when the form key has a CAPTCHA.
SchemaOf(p) == EffectiveFormDef(p.formDef, p.formKey)

\* How many times message occurs among the flashed messages.
Flashed(out, message) == Cardinality({i \in DOMAIN out.flash : out.flash[i] = message})

\* C7: parseSubmission never throws; it always returns a result.
C7_ParseNeverThrows == parse.stage # "threw"

\* The entries of the schema whose required value the body lacks.
MissingRequired(p) ==
    LET schema == SchemaOf(p)
    IN  {i \in DOMAIN schema :
            /\ schema[i].required
            /\ ~Includes(p.skipRequiredCheck, schema[i].name)
            /\ Falsy(Get(p.body, schema[i].name))}

\* The entries of the schema that emit a value: not missing, not skipValue,
\* not exempted by skipRequiredCheck.
Emitting(p) ==
    LET schema == SchemaOf(p)
    IN  {i \in DOMAIN schema :
            /\ i \notin MissingRequired(p)
            /\ ~schema[i].skipValue
            /\ ~Includes(p.skipRequiredCheck, schema[i].name)}

\* The keys of formValues the entries in set emit.
EmittedKeys(p, set) ==
    LET schema == SchemaOf(p)
    IN  {IF schema[i].key # "" THEN schema[i].key ELSE schema[i].name : i \in set}
        \cup {schema[i].htmlKey : i \in {j \in set : schema[j].type = "markdown" /\ schema[j].flat}}

\* C8: for every body and schema, parseSubmission returns
\* hasRequiredFields = false exactly when a required field (of the caller's
\* schema, _csrf, or the captcha fields when enabled) not listed in
\* skipRequiredCheck is absent or empty; each such field queues one
\* 'need <name>' message and emits no value, and the other fields are still
\* processed: formValues holds exactly the values of the fields that emit one.
C8_RequiredFields ==
    Parsed =>
        LET schema == SchemaOf(parse)
            missing == MissingRequired(parse)
        IN  /\ (Returned /\ ~parse.out.hasRequiredFields) <=> (missing # {})
            /\ \A i \in missing :
                  Flashed(parse.out, "need " \o schema[i].name) =
                      Cardinality({j \in missing : schema[j].name = schema[i].name})
            /\ DOMAIN parse.out.formValues = EmittedKeys(parse, Emitting(parse))

\* Every call that returns reports the missing required fields as C8 says.
ReturnedCallsReportRequiredFields ==
    Returned =>
        LET schema == SchemaOf(parse)
            missing == MissingRequired(parse)
        IN  /\ ~parse.out.hasRequiredFields <=> (missing # {})
            /\ \A i \in missing :
                  Flashed(parse.out, "need " \o schema[i].name) =
                      Cardinality({j \in missing : schema[j].name = schema[i].name})
            /\ DOMAIN parse.out.formValues = EmittedKeys(parse, Emitting(parse))

\* The keys of the body that name no entry of the schema.
UnknownKeys(p) ==
    LET schema == SchemaOf(p)
    IN  {k \in DOMAIN p.body : \A i \in DOMAIN schema : schema[i].name # k}

\* C9: for every body and schema, parseSubmission returns
\* hasUnknownFields = true exactly when the body has a key that names no field
\* of the effective schema; the unknown key queues 'unexpected form data'
\* and does not abort parsing: the values of the schema's fields are still
\* emitted and the unknown key is not among them.
C9_UnknownFields ==
    Parsed =>
        LET unknown == UnknownKeys(parse)
        IN  /\ (Returned /\ parse.out.hasUnknownFields) <=> (unknown # {})
            /\ unknown # {} =>
                  /\ Returned
                  /\ Flashed(parse.out, "unexpected form data") = 1
                  /\ DOMAIN parse.out.formValues = EmittedKeys(parse, Emitting(parse))
                  /\ unknown \cap DOMAIN parse.out.formValues = {}

\* Every call that returns reports the unknown keys as C9 says.
ReturnedCallsReportUnknownFields ==
    Returned =>
        LET unknown == UnknownKeys(parse)
        IN  /\ parse.out.hasUnknownFields <=> (unknown # {})
            /\ unknown # {} =>
                  /\ Flashed(parse.out, "unexpected form data") = 1
                  /\ DOMAIN parse.out.formValues = EmittedKeys(parse, Emitting(parse))
                  /\ unknown \cap DOMAIN parse.out.formValues = {}

\* The part of a string between its first and its last non-blank character.
Trimmed(str) ==
    LET inked == {i \in DOMAIN str : str[i] # " "}
    IN  IF inked = {} THEN << >>
        ELSE SubSeq(str, CHOOSE i \in inked : \A j \in inked : i <= j,
                         CHOOSE i \in inked : \A j \in inked : j <= i)

\* Two strings are equal up to the case of their letters.
SameIgnoringCase(x, y) ==
    /\ Len(x) = Len(y)
    /\ \A i \in DOMAIN x : x[i] = y[i] \/ {x[i], y[i]} = {"a", "A"}

\* The decimal numeral of a small index.
Numeral(n) == << <<"0", "1", "2", "3", "4", "5", "6", "7", "8", "9">>[n + 1] >>

\* The configured answers of the challenges a captcha-id addresses (none, or
\* one).
AddressedAnswers(id) ==
    {Localized(Captchas[i].answerKey) :
        i \in {j \in DOMAIN Captchas : id.defined /\ id.value = Numeral(j - 1)}}

\* C10: the hasCorrectCaptcha parseSubmission computes is null exactly when
\* the form key has no CAPTCHA; with a CAPTCHA it is true when the submitted
\* captcha-answer, trimmed and compared ignoring case, equals the configured
\* answer of the challenge captcha-id addresses, and false for a mismatch, a
\* missing or empty answer, or a captcha-id that addresses no challenge.
C10_CaptchaAnswer ==
    Parsed =>
        LET enabled == parse.formKey \in {"new-review"}
            answer == Get(parse.body, "captcha-answer")
            correct ==
                /\ answer.defined
                /\ answer.value # << >>
                /\ \E configured \in AddressedAnswers(Get(parse.body, "captcha-id")) :
                      SameIgnoringCase(Trimmed(answer.value), configured)
        IN  /\ (parse.out.hasCorrectCaptcha = "null") <=> ~enabled
            /\ enabled => parse.out.hasCorrectCaptcha = (IF correct THEN "true" ELSE "false")

C10_Witness ==
    /\ Returned
    /\ parse.formKey = "new-review"
    /\ parse.out.hasCorrectCaptcha = "true"
    /\ parse.body["captcha-answer"] = <<" ", "A", " ">>
    /\ parse.body["captcha-id"] = <<"0">>

====
